---- MODULE Spec2Model ----
(***************************************************************************)
(* Model of eslint-plugin-copyright's rule `notice` (src/rules/copyright.ts) *)
(* and of the host loop that lints a file, applies the reported fix and     *)
(* lints again.                                                             *)
(*                                                                          *)
(* A text is a sequence of one-character strings.  A four-digit year is one *)
(* symbol: "Y" is the current year, "O" any other four-digit year.  "C" is  *)
(* the literal text of the template in the case the template gives it, "c"  *)
(* is the same text in another letter case, "x" is any other character.     *)
(* Offsets are 0-based as in the source; a range [s, e] covers the          *)
(* characters s+1 .. e of the TLA+ sequence.                                *)
(***************************************************************************)
EXTENDS Integers, Sequences, FiniteSets, TLC

VARIABLES filename, rawOptions, options, text, orig, prev, ast, reports, lastFix, pc, passes

vars == <<filename, rawOptions, options, text, orig, prev, ast, reports, lastFix, pc, passes>>

\* ------------------------------------------------------------------ bounds

\* Lines after the first one in an initial document.
MaxRest == 3

\* Largest value of the newlines option that is enumerated.
MaxNewlines == 2

\* Fix / re-lint passes the host makes before it gives up.
MaxPasses == 7

\* ------------------------------------------------------------ characters

NL == "\n"

\* JavaScript's \s restricted to the characters of the model.
WS == {" ", "\t", "\r", "\n"}

\* JavaScript's line terminators, which "." does not match.
LineTerminators == {"\n", "\r"}

\* \d{4}: the four-digit groups.
Years == {"Y", "O"}

CurrentYear == "Y"

\* String.prototype.toLowerCase on the letters of the model.
LowerChar(c) == IF c = "C" THEN "c" ELSE c

\* The template option: literal text followed by the YYYY placeholder.
Template == <<"C", "YYYY">>

\* ------------------------------------------------------- string helpers

Repeat(c, n) == [i \in 1..n |-> c]

\* text.slice(s, e) for 0 <= s, with e clamped to the length.
Slice(s, from, to) ==
    LET e == IF to > Len(s) THEN Len(s) ELSE to
    IN  IF from >= e THEN <<>> ELSE SubSeq(s, from + 1, e)

\* Index (1-based) of the first "\n" at or after position i, or 0.
RECURSIVE NextNL(_, _)
NextNL(s, i) ==
    IF i > Len(s) THEN 0
    ELSE IF s[i] = NL THEN i
    ELSE NextNL(s, i + 1)

\* sourceText.split('\n')
RECURSIVE SplitFrom(_, _)
SplitFrom(s, i) ==
    LET j == NextNL(s, i)
    IN  IF j = 0 THEN <<Slice(s, i - 1, Len(s))>>
        ELSE <<Slice(s, i - 1, j - 1)>> \o SplitFrom(s, j + 1)

Split(s) == SplitFrom(s, 1)

\* !s.trim(): the string holds only whitespace.
TrimIsEmpty(s) == \A i \in 1..Len(s) : s[i] \in WS

\* First position at or after i that holds no whitespace (Len(s)+1 if none).
RECURSIVE SkipWs(_, _)
SkipWs(s, i) ==
    IF i > Len(s) THEN Len(s) + 1
    ELSE IF s[i] \in WS THEN SkipWs(s, i + 1)
    ELSE i

\* s has the characters of lit at position i (1-based).
HasAt(s, i, lit) ==
    /\ i >= 1
    /\ i + Len(lit) - 1 <= Len(s)
    /\ \A k \in 1..Len(lit) : s[i + k - 1] = lit[k]

\* firstLine.includes(sub)
Includes(s, sub) == \E i \in 1..(Len(s) + 1) : HasAt(s, i, sub)

\* template.replace('YYYY', x): a string pattern replaces the first occurrence only.
ReplaceYYYY(tpl, x) ==
    [k \in 1..Len(tpl) |->
        IF tpl[k] = "YYYY" /\ (\A j \in 1..(k - 1) : tpl[j] # "YYYY") THEN x ELSE tpl[k]]

\* ------------------------------------------------------------- regexes

\* escapedCopyrightText: the template with its literal characters escaped and
\* its first YYYY replaced by \d{4}.
EscapedCopyrightText == ReplaceYYYY(Template, "\\d{4}")

\* One element of the pattern against one character, with or without the i flag.
PatternChar(p, c, ignoreCase) ==
    IF p = "\\d{4}" THEN c \in Years
    ELSE IF ignoreCase THEN LowerChar(p) = LowerChar(c)
    ELSE p = c

\* The escaped template matches s from position i on.
PatternAt(s, i, ignoreCase) ==
    /\ i + Len(EscapedCopyrightText) - 1 <= Len(s)
    /\ \A k \in 1..Len(EscapedCopyrightText) :
          PatternChar(EscapedCopyrightText[k], s[i + k - 1], ignoreCase)

\* ^\s*\/\/\s*<template>\s*$  (the template starts with a non-space character,
\* so the greedy \s* runs stop at the first non-space character).
SingleLineTest(line, ignoreCase) ==
    LET i == SkipWs(line, 1)
        j == SkipWs(line, i + 2)
    IN  /\ HasAt(line, i, <<"/", "/">>)
        /\ PatternAt(line, j, ignoreCase)
        /\ SkipWs(line, j + Len(EscapedCopyrightText)) = Len(line) + 1

\* ^\s*\/\*\s*<template>\s*\*\/\s*$
MultiLineTest(line, ignoreCase) ==
    LET i == SkipWs(line, 1)
        j == SkipWs(line, i + 2)
        k == SkipWs(line, j + Len(EscapedCopyrightText))
    IN  /\ HasAt(line, i, <<"/", "*">>)
        /\ PatternAt(line, j, ignoreCase)
        /\ HasAt(line, k, <<"*", "/">>)
        /\ SkipWs(line, k + 2) = Len(line) + 1

\* singleLineCommentRegex.test(line) || multiLineCommentRegex.test(line)
IsCopyrightComment(line) == SingleLineTest(line, FALSE) \/ MultiLineTest(line, FALSE)

\* The same two regexes with the i flag: the loose match.
IsCopyrightCommentCaseInsensitive(line) ==
    SingleLineTest(line, TRUE) \/ MultiLineTest(line, TRUE)

\* /\/\/\s{2,}/ and /\/\*\s{2,}/: the opener followed by two or more spaces, anywhere.
OpenerThenSpaces(line, opener) ==
    \E i \in 1..Len(line) :
        /\ HasAt(line, i, opener)
        /\ i + 3 <= Len(line)
        /\ line[i + 2] \in WS
        /\ line[i + 3] \in WS

\* For JS/TS: "// text" with no trailing spaces, as the source tests it.
HasFormatIssueJs(firstLine) ==
    LET jsCommentFormat ==              \* /^\/\/\s{1}[^/]/
            /\ Len(firstLine) >= 4
            /\ HasAt(firstLine, 1, <<"/", "/">>)
            /\ firstLine[3] \in WS
            /\ firstLine[4] # "/"
        noExtraLeadingSpaces == ~OpenerThenSpaces(firstLine, <<"/", "/">>)
        noTrailingSpaces ==             \* !/\s{2,}$/
            ~(/\ Len(firstLine) >= 2
              /\ firstLine[Len(firstLine)] \in WS
              /\ firstLine[Len(firstLine) - 1] \in WS)
    IN  ~jsCommentFormat \/ ~noExtraLeadingSpaces \/ ~noTrailingSpaces

\* For CSS: "/* text */".
HasFormatIssueCss(firstLine) ==
    LET n == Len(firstLine)
        cssCommentFormat ==             \* /^\/\*\s{1}.*\s{1}\*\/$/
            /\ n >= 6
            /\ HasAt(firstLine, 1, <<"/", "*">>)
            /\ firstLine[3] \in WS
            /\ \A k \in 4..(n - 3) : firstLine[k] \notin LineTerminators
            /\ firstLine[n - 2] \in WS
            /\ HasAt(firstLine, n - 1, <<"*", "/">>)
        noExtraSpaces ==                \* !/\/\*\s{2,}/ && !/\s{2,}\*\/$/
            /\ ~OpenerThenSpaces(firstLine, <<"/", "*">>)
            /\ ~(/\ n >= 4
                 /\ HasAt(firstLine, n - 1, <<"*", "/">>)
                 /\ firstLine[n - 2] \in WS
                 /\ firstLine[n - 3] \in WS)
    IN  ~cssCommentFormat \/ ~noExtraSpaces

HasFormatIssue(fileExtension, firstLine) ==
    IF fileExtension = "css" THEN HasFormatIssueCss(firstLine)
    ELSE HasFormatIssueJs(firstLine)

\* ------------------------------------------------------- checkCopyright

\* fixer.insertTextBeforeRange / replaceTextRange / removeRange: one edit.
Edit(start, end, newText) == [range |-> <<start, end>>, text |-> newText]

\* context.report({ messageId, fix })
Report(messageId, fix) == [messageId |-> messageId, fix |-> fix]

\* lines[0].length + 1 + ... + lines[n-1].length + 1: the offset of line n (0-based).
RECURSIVE LineStart(_, _)
LineStart(lines, n) ==
    IF n = 0 THEN 0 ELSE LineStart(lines, n - 1) + Len(lines[n]) + 1

\* while (firstNonEmptyLine < lines.length && !lines[firstNonEmptyLine].trim())
RECURSIVE FirstNonEmptyLine(_, _)
FirstNonEmptyLine(lines, n) ==
    IF n < Len(lines) /\ TrimIsEmpty(lines[n + 1]) THEN FirstNonEmptyLine(lines, n + 1)
    ELSE n

\* while (i < lines.length && lines[i] === '') from i: the index the loop stops at.
RECURSIVE SkipEmptyLines(_, _)
SkipEmptyLines(lines, i) ==
    IF i < Len(lines) /\ lines[i + 1] = <<>> THEN SkipEmptyLines(lines, i + 1)
    ELSE i

\* actualNewlines: the empty lines that follow line 0.
ActualNewlines(lines) == SkipEmptyLines(lines, 1) - 1

\* ExpectedEmptyLines without the "- 1": one blank line expected per line break.
ExpectedEmptyLinesPerBreak(newlines) == IF newlines > 0 THEN newlines ELSE 0

\* Math.max(0, newlines - 1)
ExpectedEmptyLines(newlines) == IF newlines - 1 > 0 THEN newlines - 1 ELSE 0

\* FirstLaterMatch with the scan made by the case-sensitive regexes.
RECURSIVE FirstLaterMatchCaseSensitive(_, _)
FirstLaterMatchCaseSensitive(lines, i) ==
    IF i >= Len(lines) THEN -1
    ELSE IF IsCopyrightComment(lines[i + 1]) /\ i # 0 THEN i
    ELSE FirstLaterMatchCaseSensitive(lines, i + 1)

\* The first index i >= 1 (0-based) whose line matches loosely, or -1.
RECURSIVE FirstLaterMatch(_, _)
FirstLaterMatch(lines, i) ==
    IF i >= Len(lines) THEN -1
    ELSE IF IsCopyrightCommentCaseInsensitive(lines[i + 1]) /\ i # 0 THEN i
    ELSE FirstLaterMatch(lines, i + 1)

\* while (removalStart > 0 && /\s/.test(sourceText[removalStart - 1])) removalStart--
RECURSIVE RemovalStart(_, _)
RemovalStart(sourceText, removalStart) ==
    IF removalStart > 0 /\ sourceText[removalStart] \in WS
    THEN RemovalStart(sourceText, removalStart - 1)
    ELSE removalStart

\* The end of the removed range: the line's end, plus the newline after it unless
\* that newline is the last character of the file.
RemovalEnd(sourceText, lineEnd) ==
    IF /\ lineEnd < Len(sourceText)
       /\ sourceText[lineEnd + 1] = NL
       /\ lineEnd < Len(sourceText) - 1
    THEN lineEnd + 1
    ELSE lineEnd

\* ExpectedCopyright with the line-comment form for every extension.
ExpectedCopyrightLineComment(fileExtension) ==
    <<"/", "/", " ">> \o ReplaceYYYY(Template, CurrentYear)

\* `${expectedCopyright}`: the header in the dialect of the file extension.
ExpectedCopyright(fileExtension) ==
    LET copyrightTextWithYear == ReplaceYYYY(Template, CurrentYear)
    IN  IF fileExtension = "css"
        THEN <<"/", "*", " ">> \o copyrightTextWithYear \o <<" ", "*", "/">>
        ELSE <<"/", "/", " ">> \o copyrightTextWithYear

\* '\n'.repeat(newlines)
NewlinesStr(newlines) == Repeat(NL, newlines)

\* MissingFix with a range that covers the first character of the file.
MissingFixOverFirstChar(fileExtension, newlines) ==
    <<Edit(0, 1, ExpectedCopyright(fileExtension) \o NewlinesStr(newlines))>>

\* The fix of the missingCopyright reports.
MissingFix(fileExtension, newlines) ==
    <<Edit(0, 0, ExpectedCopyright(fileExtension) \o NewlinesStr(newlines))>>

\* The fix of the case-mismatch report: line 0 alone is replaced.
CaseFix(fileExtension, firstLine) ==
    <<Edit(0, Len(firstLine), ExpectedCopyright(fileExtension))>>

\* The fix of the format / year / newlines report: line 0 and the empty lines
\* after it are replaced by the header and `newlines` line breaks.
HeaderFix(fileExtension, newlines, lines) ==
    LET contentLineIndex == SkipEmptyLines(lines, 1)
        contentStart == LineStart(lines, contentLineIndex)
    IN  <<Edit(0, contentStart, ExpectedCopyright(fileExtension) \o NewlinesStr(newlines))>>

\* The fix of the incorrectPosition report: the header is inserted at offset 0,
\* and line i is removed with the whitespace before it.
PositionFix(fileExtension, newlines, sourceText, lines, i) ==
    LET lineStart == LineStart(lines, i)
        lineEnd == lineStart + Len(lines[i + 1])
    IN  <<Edit(0, 0, ExpectedCopyright(fileExtension) \o NewlinesStr(newlines)),
          Edit(RemovalStart(sourceText, lineStart), RemovalEnd(sourceText, lineEnd), <<>>)>>

\* HeaderBranch without the year test.
HeaderBranchNoYear(fileExtension, newlines, lines) ==
    LET firstLine == lines[1]
        hasFormatIssue == HasFormatIssue(fileExtension, firstLine)
        hasCorrectNewlines == ActualNewlines(lines) = ExpectedEmptyLines(newlines)
    IN  IF hasFormatIssue \/ ~hasCorrectNewlines
        THEN <<Report(IF hasFormatIssue THEN "invalidCopyrightFormat"
                      ELSE "incorrectNewlines",
                      HeaderFix(fileExtension, newlines, lines))>>
        ELSE <<>>

\* The branch taken when line 0 is a case-correct header.
HeaderBranch(fileExtension, newlines, lines) ==
    LET firstLine == lines[1]
        hasFormatIssue == HasFormatIssue(fileExtension, firstLine)
        needsYearUpdate == ~Includes(firstLine, ReplaceYYYY(Template, CurrentYear))
        hasCorrectNewlines == ActualNewlines(lines) = ExpectedEmptyLines(newlines)
    IN  IF hasFormatIssue \/ needsYearUpdate \/ ~hasCorrectNewlines
        THEN <<Report(IF hasFormatIssue THEN "invalidCopyrightFormat"
                      ELSE IF needsYearUpdate THEN "outdatedCopyright"
                      ELSE "incorrectNewlines",
                      HeaderFix(fileExtension, newlines, lines))>>
        ELSE <<>>

\* The scan for a notice that is not on line 0, and the missing report.
ScanBranch(fileExtension, newlines, sourceText, lines) ==
    LET i == FirstLaterMatch(lines, 0)
    IN  IF i # -1
        THEN <<Report("incorrectPosition",
                      PositionFix(fileExtension, newlines, sourceText, lines, i))>>
        ELSE <<Report("missingCopyright", MissingFix(fileExtension, newlines))>>

\* checkCopyright() without the case-sensitivity check of line 0.
CheckCopyrightNoCaseCheck(fileExtension, newlines, sourceText) ==
    LET lines == Split(sourceText)
        firstLine == lines[1]
    IN  IF TrimIsEmpty(sourceText)
        THEN <<Report("missingCopyright", MissingFix(fileExtension, newlines))>>
        ELSE IF FirstNonEmptyLine(lines, 0) = 0 /\ IsCopyrightComment(firstLine)
        THEN HeaderBranch(fileExtension, newlines, lines)
        ELSE ScanBranch(fileExtension, newlines, sourceText, lines)

\* checkCopyright() without the `return` after the case-mismatch report: the run
\* goes on to the scan of the later lines.
CheckCopyrightNoReturn(fileExtension, newlines, sourceText) ==
    LET lines == Split(sourceText)
        firstLine == lines[1]
    IN  IF TrimIsEmpty(sourceText)
        THEN <<Report("missingCopyright", MissingFix(fileExtension, newlines))>>
        ELSE IF FirstNonEmptyLine(lines, 0) = 0
                /\ IsCopyrightCommentCaseInsensitive(firstLine)
                /\ ~IsCopyrightComment(firstLine)
        THEN <<Report("invalidCopyrightFormat", CaseFix(fileExtension, firstLine))>>
                \o ScanBranch(fileExtension, newlines, sourceText, lines)
        ELSE IF FirstNonEmptyLine(lines, 0) = 0 /\ IsCopyrightComment(firstLine)
        THEN HeaderBranch(fileExtension, newlines, lines)
        ELSE ScanBranch(fileExtension, newlines, sourceText, lines)

\* checkCopyright(): the reports of one run over the file, in order.
CheckCopyright(fileExtension, newlines, sourceText) ==
    LET lines == Split(sourceText)
        firstLine == lines[1]
    IN  IF TrimIsEmpty(sourceText)
        THEN <<Report("missingCopyright", MissingFix(fileExtension, newlines))>>
        ELSE IF FirstNonEmptyLine(lines, 0) = 0
                /\ IsCopyrightCommentCaseInsensitive(firstLine)
                /\ ~IsCopyrightComment(firstLine)
        THEN <<Report("invalidCopyrightFormat", CaseFix(fileExtension, firstLine))>>
        ELSE IF FirstNonEmptyLine(lines, 0) = 0 /\ IsCopyrightComment(firstLine)
        THEN HeaderBranch(fileExtension, newlines, lines)
        ELSE ScanBranch(fileExtension, newlines, sourceText, lines)

\* ------------------------------------------------------------ the rule

\* String.prototype.toLowerCase on the extensions of the model.
ToLowerCase(e) ==
    CASE e = "JS" -> "js"
      [] e = "RS" -> "rs"
      [] OTHER -> e

\* filePath.split('.').pop()?.toLowerCase(); a file name is held split at its dots.
FileExtension(filePath) == ToLowerCase(filePath[Len(filePath)])

SupportedExtensions == {"js", "jsx", "ts", "tsx", "css"}

\* The second default of create(): rawOptions?.newlines ?? 1.
CreateNewlines(opts) == IF opts.given /\ opts.hasNewlines THEN opts.newlines ELSE 1

\* create(context) and its listener: the reports of one lint run over the file.
\* A file whose extension is not supported gets no listener, so no report.
RuleRun(filePath, opts, sourceText) ==
    LET fileExtension == FileExtension(filePath)
        newlines == CreateNewlines(opts)
    IN  IF fileExtension \notin SupportedExtensions THEN <<>>
        ELSE CheckCopyright(fileExtension, newlines, sourceText)

\* meta.schema as the host's validator applies it to the options array: an
\* options object may hold only template and newlines, newlines >= 0.
SchemaAccepts(raw) ==
    ~raw.given \/ (~raw.hasExtensions /\ (raw.hasNewlines => raw.newlines >= 0))

\* meta.schema's `default: 2`, which the validator writes into an options object
\* that has no newlines.
SchemaDefaults(raw) ==
    IF raw.given /\ ~raw.hasNewlines
    THEN [raw EXCEPT !.hasNewlines = TRUE, !.newlines = 2]
    ELSE raw

\* ------------------------------------------------------ the stub parser

\* Index (1-based) of the first occurrence of sep at or after position i, or 0.
RECURSIVE NextSep(_, _, _)
NextSep(s, i, sep) ==
    IF i + Len(sep) - 1 > Len(s) THEN 0
    ELSE IF HasAt(s, i, sep) THEN i
    ELSE NextSep(s, i + 1, sep)

\* text.split(eol)
RECURSIVE SplitOnFrom(_, _, _)
SplitOnFrom(s, i, sep) ==
    LET j == NextSep(s, i, sep)
    IN  IF j = 0 THEN <<Slice(s, i - 1, Len(s))>>
        ELSE <<Slice(s, i - 1, j - 1)>> \o SplitOnFrom(s, j + Len(sep), sep)

\* getEndLoc(text): the line and column of the end of the text.
GetEndLoc(sourceText) ==
    LET eol == IF Includes(sourceText, <<"\r", "\n">>) THEN <<"\r", "\n">> ELSE <<"\n">>
        lines == SplitOnFrom(sourceText, 1, eol)
    IN  [line |-> Len(lines), column |-> Len(lines[Len(lines)])]

\* rustParser.parseForESLint(text).ast
ParseForESLint(sourceText) ==
    [type |-> "Program",
     body |-> <<>>,
     range |-> <<0, Len(sourceText)>>,
     loc |-> [start |-> [line |-> 1, column |-> 0], end |-> GetEndLoc(sourceText)]]

\* --------------------------------------------------------- the host

\* The edits of one report merged into one replacement of the original text
\* (they are built in range order): the text between them is kept.
MergeFixes(sourceText, fix) ==
    IF Len(fix) = 1 THEN fix[1]
    ELSE Edit(fix[1].range[1],
              fix[2].range[2],
              fix[1].text
                \o Slice(sourceText, fix[1].range[2], fix[2].range[1])
                \o fix[2].text)

\* applyFix: the text with the report's replacement made.
ApplyFix(sourceText, fix) ==
    LET m == MergeFixes(sourceText, fix)
    IN  Slice(sourceText, 0, m.range[1]) \o m.text \o Slice(sourceText, m.range[2], Len(sourceText))

\* ------------------------------------------------------ initial states

H == <<"/", "/", " ", "C", "Y">>

\* The kinds of first line: blank, content, and a notice in each shape the
\* checks tell apart.
FirstLines ==
    { <<>>,
      <<"x">>,
      <<" ">>,
      H,
      <<"/", "/", " ", "C", "O">>,
      <<"/", "/", " ", "c", "Y">>,
      <<"/", "/", "C", "Y">>,
      <<"/", "/", " ", " ", "C", "Y">>,
      <<"/", "/", " ", "C", "Y", " ">>,
      <<"/", "/", " ", "C", "Y", " ", " ">>,
      <<" ", "/", "/", " ", "C", "Y">>,
      <<"/", "*", " ", "C", "Y", " ", "*", "/">>,
      <<"/", "*", " ", "C", "O", " ", "*", "/">>,
      <<"/", "*", "C", "Y", "*", "/">>,
      <<"/", "/", " ", "C", "Y", "\r">>,
      <<"/", "/", " ", " ", "c", "O">> }

\* The kinds of later line.
RestLines == { <<>>, <<"x">>, <<" ">>, <<"\r">>, H, <<"/", "*", " ", "c", "O", " ", "*", "/">> }

\* lines.join('\n')
RECURSIVE Join(_)
Join(lines) ==
    IF Len(lines) = 1 THEN lines[1]
    ELSE lines[1] \o <<NL>> \o Join(Tail(lines))

Documents ==
    { Join(<<f>> \o r) :
        f \in FirstLines,
        r \in UNION { [1..n -> RestLines] : n \in 0..MaxRest } }

Filenames ==
    { <<"file", "js">>, <<"file", "css">>, <<"FILE", "JS">>,
      <<"file", "rs">>, <<"file", "RS">> }

\* The rule enabled without an options object; newlines and extensions are read
\* only when hasNewlines and hasExtensions say they are given.
NoOptions ==
    [given |-> FALSE, hasNewlines |-> FALSE, newlines |-> 0,
     hasExtensions |-> FALSE, extensions |-> <<>>]

RawOptionsSet ==
    {NoOptions}
    \cup { [given |-> TRUE, hasNewlines |-> TRUE, newlines |-> n,
            hasExtensions |-> FALSE, extensions |-> <<>>] : n \in 0..MaxNewlines }
    \cup { [given |-> TRUE, hasNewlines |-> FALSE, newlines |-> 0,
            hasExtensions |-> FALSE, extensions |-> <<>>] }
    \cup { [given |-> TRUE, hasNewlines |-> TRUE, newlines |-> 1,
            hasExtensions |-> TRUE, extensions |-> e] : e \in {<<"rs">>, <<".rs">>, <<"js">>} }

\* No file has been parsed yet.
NoAst ==
    [type |-> "", body |-> <<>>, range |-> <<0, 0>>,
     loc |-> [start |-> [line |-> 0, column |-> 0], end |-> [line |-> 0, column |-> 0]]]

Init ==
    /\ filename \in Filenames
    /\ rawOptions \in RawOptionsSet
    /\ options = rawOptions
    /\ text \in Documents
    /\ orig = text
    /\ prev = text
    /\ ast = NoAst
    /\ reports = <<>>
    /\ lastFix = "none"
    /\ pc = "configure"
    /\ passes = 0

\* ------------------------------------------------------------- actions

\* The host validates the rule's options against meta.schema.
ValidateOptions ==
    /\ pc = "configure"
    /\ IF SchemaAccepts(rawOptions)
       THEN /\ options' = SchemaDefaults(rawOptions)
            /\ pc' = "lint"
       ELSE /\ options' = options
            /\ pc' = "configError"
    /\ UNCHANGED <<filename, rawOptions, text, orig, prev, ast, reports, lastFix, passes>>

\* One lint run: the host parses the current text (with the stub parser) and runs
\* create() and checkCopyright() over it.
Lint ==
    /\ pc = "lint"
    /\ ast' = ParseForESLint(text)
    /\ reports' = RuleRun(filename, options, text)
    /\ pc' = "linted"
    /\ UNCHANGED <<filename, rawOptions, options, text, orig, prev, lastFix, passes>>

\* The host applies the fix of the report and lints the result again.
Fix ==
    /\ pc = "linted"
    /\ reports # <<>>
    /\ passes < MaxPasses
    /\ text' = ApplyFix(text, reports[1].fix)
    /\ prev' = text
    /\ lastFix' = reports[1].messageId
    /\ passes' = passes + 1
    /\ reports' = <<>>
    /\ pc' = "lint"
    /\ UNCHANGED <<filename, rawOptions, options, orig, ast>>

Next == ValidateOptions \/ Lint \/ Fix

Spec == Init /\ [][Next]_vars

\* ------------------------------------------------------------ readings

\* The file is analysed: its extension passes the check of create().
Analysed == FileExtension(filename) \in SupportedExtensions

\* The kind of the diagnostic of the last lint run.
Kind == IF reports = <<>> THEN "none" ELSE reports[1].messageId

\* The value of newlines the rule works with.
N == CreateNewlines(options)

Lines == Split(text)

\* Some line other than line 1 matches the template loosely.
LaterLooseLine(lines) ==
    \E i \in 2..Len(lines) : IsCopyrightCommentCaseInsensitive(lines[i])

\* The header with any four-digit year, exactly as the dialect writes it.
ExactHeader(fileExtension, line) ==
    LET e == ExpectedCopyright(fileExtension)
    IN  /\ Len(line) = Len(e)
        /\ \A k \in 1..Len(e) : IF e[k] = CurrentYear THEN line[k] \in Years ELSE line[k] = e[k]

\* The text after one application of the fix of the current report.
Fixed == ApplyFix(text, reports[1].fix)

\* ---------------------------------------------------------------- claims

\* C1: repeatedly applying the reported fix and linting again reaches a text with
\* no diagnostic within at most 6 fix / re-lint iterations: the lint run that
\* follows the sixth fix reports nothing.
C1_FixPointWithinSixPasses ==
    (pc = "linted" /\ Analysed /\ passes = 6) => reports = <<>>

\* C2: when a lint run reports a diagnostic with a fix, the text with that fix
\* applied once gets no diagnostic from the next lint run.
C2_OneFixThenClean ==
    (pc = "linted" /\ Analysed /\ passes = 1) => reports = <<>>

\* The index (0-based) of the first non-empty line after line 1, or the number of
\* lines when only empty lines follow.
NextNonBlank(lines) == SkipEmptyLines(lines, 1)

\* Line 1 is a case-correct header and the next non-blank line after it matches
\* the template loosely.
DuplicateCase(lines) ==
    /\ IsCopyrightComment(lines[1])
    /\ NextNonBlank(lines) < Len(lines)
    /\ IsCopyrightCommentCaseInsensitive(lines[NextNonBlank(lines) + 1])

\* C3: when line 1 is a case-correct header and the next non-blank line after it
\* also matches loosely, the report is duplicateCopyright and the fixed text is the
\* canonical header, the configured separators, and then what followed the second
\* notice and its blank lines.
C3_DuplicateReportedAndCollapsed ==
    (pc = "linted" /\ Analysed /\ N >= 1 /\ DuplicateCase(Lines)) =>
        /\ Kind = "duplicateCopyright"
        /\ Fixed = ExpectedCopyright(FileExtension(filename)) \o NewlinesStr(N)
                     \o Slice(text,
                              LineStart(Lines, SkipEmptyLines(Lines, NextNonBlank(Lines) + 1)),
                              Len(text))

\* The extensions option normalised: trimmed, lower-cased, a leading dot stripped.
NormalizedExtension(e) ==
    CASE e = ".rs" -> "rs"
      [] e = ".RS" -> "rs"
      [] OTHER -> ToLowerCase(e)

\* The configured allow-list holds the extension of the file.
AllowListHolds(opts, filePath) ==
    \E k \in 1..Len(opts.extensions) :
        NormalizedExtension(opts.extensions[k]) = FileExtension(filePath)

\* The host has finished with the file: it was linted, or its options were refused.
Settled == pc \in {"linted", "configError"}

\* C4: with an allow-list configured, a file whose extension the normalised list
\* does not hold gets no diagnostic, and a file whose extension it holds is
\* analysed: without any loosely matching line it gets missingCopyright.
C4_AllowListGates ==
    (Settled /\ passes = 0 /\ rawOptions.given /\ rawOptions.hasExtensions) =>
        IF AllowListHolds(rawOptions, filename)
        THEN (~IsCopyrightCommentCaseInsensitive(Lines[1]) /\ ~LaterLooseLine(Lines))
                => Kind = "missingCopyright"
        ELSE Kind = "none"

\* C5: when the configuration gives no newlines, the lint run reports what it
\* reports for newlines = 2.
C5_DefaultNewlinesIsTwo ==
    (pc = "linted" /\ Analysed /\ ~rawOptions.hasNewlines) =>
        reports = CheckCopyright(FileExtension(filename), 2, text)

\* C6: for newlines = n >= 1 and a line-1 header of correct format and year, any
\* count of empty lines after the header other than n-1 is reported as
\* incorrectNewlines, and the text the fix produces has exactly n-1 empty lines
\* after the header.
C6_ExactlyNMinusOneBlankLines ==
    /\ (pc = "linted" /\ Analysed /\ N >= 1
          /\ ExactHeader(FileExtension(filename), Lines[1])
          /\ Includes(Lines[1], ReplaceYYYY(Template, CurrentYear))
          /\ ActualNewlines(Lines) # N - 1)
        => (Kind = "incorrectNewlines" /\ ActualNewlines(Split(Fixed)) = N - 1)

\* C7: newlines = 0 is clamped to 1: after any fix the header is still followed by
\* a line break (or by the end of the text), never by content on the same line.
C7_NewlinesClampedToOne ==
    (pc = "lint" /\ passes >= 1 /\ N < 1) =>
        LET e == ExpectedCopyright(FileExtension(filename))
        IN  /\ HasAt(text, 1, e)
            /\ (Len(text) > Len(e) => text[Len(e) + 1] = NL)

\* C8: in a line-comment file a line 1 that matches the template loosely but is
\* not exactly "// " + text (leading, extra, missing or trailing whitespace, block
\* comment punctuation) is reported as invalidCopyrightFormat.
C8_NonExactLineCommentIsFormatIssue ==
    (pc = "linted" /\ Analysed /\ FileExtension(filename) # "css"
        /\ IsCopyrightCommentCaseInsensitive(Lines[1])
        /\ ~ExactHeader(FileExtension(filename), Lines[1]))
        => Kind = "invalidCopyrightFormat"

\* C9: when line 1 does not match loosely (a blank line 1 included) and a later
\* line does, the report is incorrectPosition; when no line matches loosely, the
\* report is missingCopyright.
C9_PositionOrMissing ==
    (pc = "linted" /\ Analysed /\ ~IsCopyrightCommentCaseInsensitive(Lines[1])) =>
        IF LaterLooseLine(Lines) THEN Kind = "incorrectPosition"
        ELSE Kind = "missingCopyright"

\* C9 witness: a blank line 1, a notice in another letter case further down, and
\* the incorrectPosition report.
C9_Witness ==
    /\ pc = "linted"
    /\ Analysed
    /\ Lines[1] = <<>>
    /\ \E i \in 2..Len(Lines) :
          IsCopyrightCommentCaseInsensitive(Lines[i]) /\ ~IsCopyrightComment(Lines[i])
    /\ Kind = "incorrectPosition"

\* C10: after the incorrectPosition fix the text starts with the canonical header
\* and no other line matches the template loosely.  The case checked is the one
\* where line 1 of the text before the fix is content, so that every notice of
\* that text lies after the initial run of blank and loosely matching lines.
C10_PositionFixLeavesOneNotice ==
    (pc = "lint" /\ passes = 1 /\ lastFix = "incorrectPosition" /\ N >= 1
        /\ ~TrimIsEmpty(Split(prev)[1])) =>
        /\ Lines[1] = ExpectedCopyright(FileExtension(filename))
        /\ ~LaterLooseLine(Lines)

\* The canonical header of a dialect, written out: "/* " + text + " */" for css,
\* "// " + text for the other extensions, the text carrying the current year.
CanonicalHeader(fileExtension) ==
    IF fileExtension = "css"
    THEN <<"/", "*", " ", "C", "Y", " ", "*", "/">>
    ELSE <<"/", "/", " ", "C", "Y">>

\* No line of the text matches the template loosely.
NoLooseLine(lines) ==
    \A i \in 1..Len(lines) : ~IsCopyrightCommentCaseInsensitive(lines[i])

\* C11: when no line of the document matches the template loosely (the empty
\* document included) the report is missingCopyright and its fix yields the
\* canonical header, then `newlines` line breaks, then the original text unchanged.
C11_MissingFixInsertsAtStart ==
    (pc = "linted" /\ Analysed /\ NoLooseLine(Lines)) =>
        /\ Kind = "missingCopyright"
        /\ Fixed = CanonicalHeader(FileExtension(filename)) \o Repeat(NL, N) \o text

\* C11 witness: a non-empty text without any notice, newlines = 2, and the
\* missingCopyright report.
C11_Witness ==
    /\ pc = "linted"
    /\ Analysed
    /\ NoLooseLine(Lines)
    /\ Len(text) >= 3
    /\ N = 2
    /\ Kind = "missingCopyright"

\* C12: a line 1 that matches the template without regard to letter case but not
\* with it is reported as invalidCopyrightFormat, whatever its year, its spacing
\* and the lines after it.
C12_CaseMismatchIsFormat ==
    (pc = "linted" /\ Analysed
        /\ IsCopyrightCommentCaseInsensitive(Lines[1]) /\ ~IsCopyrightComment(Lines[1]))
        => Kind = "invalidCopyrightFormat"

\* C12 witness: a line 1 in the wrong case, with another year and doubled spacing,
\* above a later notice, and the invalidCopyrightFormat report.
C12_Witness ==
    /\ pc = "linted"
    /\ Analysed
    /\ Lines[1] = <<"/", "/", " ", " ", "c", "O">>
    /\ LaterLooseLine(Lines)
    /\ Kind = "invalidCopyrightFormat"

\* The three defects of a line-1 header as the specification names them: the line
\* is not exactly the dialect's form; its year is not the current one; the empty
\* lines after it are not newlines - 1.
FormatDefect(fileExtension, line) == ~ExactHeader(fileExtension, line)

YearDefect(line) == \E k \in 1..Len(line) : line[k] \in Years \ {CurrentYear}

NewlinesDefect(newlines, lines) == ActualNewlines(lines) # newlines - 1

DefectCount(fileExtension, newlines, lines) ==
    (IF FormatDefect(fileExtension, lines[1]) THEN 1 ELSE 0)
    + (IF YearDefect(lines[1]) THEN 1 ELSE 0)
    + (IF NewlinesDefect(newlines, lines) THEN 1 ELSE 0)

\* The first defect present, in the order format, year, newlines.
FirstDefect(fileExtension, newlines, lines) ==
    IF FormatDefect(fileExtension, lines[1]) THEN "invalidCopyrightFormat"
    ELSE IF YearDefect(lines[1]) THEN "outdatedCopyright"
    ELSE "incorrectNewlines"

\* C13: for a case-correct header on line 1 with two or more of the defects
\* format, year and blank-line count, exactly one diagnostic is reported and its
\* kind is the first defect present in the order format, year, newlines.  The
\* case checked is the one where content follows the header and its blank lines.
C13_FirstDefectIsReported ==
    (pc = "linted" /\ Analysed /\ N >= 1
        /\ IsCopyrightComment(Lines[1]) /\ ~DuplicateCase(Lines)
        /\ NextNonBlank(Lines) < Len(Lines)
        /\ DefectCount(FileExtension(filename), N, Lines) >= 2) =>
        /\ Len(reports) = 1
        /\ Kind = FirstDefect(FileExtension(filename), N, Lines)

\* C14: a line 1 that is exactly the dialect's header but for its year, which is
\* not the current one, is reported as outdatedCopyright, and line 1 of the fixed
\* text is the header with the current year (newlines >= 1).
C14_OutdatedYearIsRewritten ==
    (pc = "linted" /\ Analysed /\ N >= 1
        /\ ExactHeader(FileExtension(filename), Lines[1]) /\ YearDefect(Lines[1])) =>
        /\ Kind = "outdatedCopyright"
        /\ Split(Fixed)[1] = CanonicalHeader(FileExtension(filename))

\* C14 witness: a well-formed header of another year above content, in a file not
\* yet fixed, and the outdatedCopyright report.
C14_Witness ==
    /\ pc = "linted"
    /\ Analysed
    /\ passes = 0
    /\ N >= 1
    /\ ExactHeader(FileExtension(filename), Lines[1])
    /\ YearDefect(Lines[1])
    /\ NextNonBlank(Lines) < Len(Lines)
    /\ Kind = "outdatedCopyright"

\* C15: one lint run over a document reports at most one diagnostic.
C15_AtMostOneDiagnostic == pc = "linted" => Len(reports) <= 1

\* C15 witness: a document with two defects (line 1 in the wrong case and a
\* second notice further down) and exactly one report.
C15_Witness ==
    /\ pc = "linted"
    /\ Analysed
    /\ IsCopyrightCommentCaseInsensitive(Lines[1])
    /\ ~IsCopyrightComment(Lines[1])
    /\ LaterLooseLine(Lines)
    /\ Len(reports) = 1

IsCRLF(t) ==
    /\ \E i \in 1..Len(t) : t[i] = NL
    /\ \A i \in 1..Len(t) : t[i] = NL => (i > 1 /\ t[i - 1] = "\r")

\* The lines of a CR LF text: the lines between the line feeds, without the
\* carriage return that ends each of them.
CRLFLine(line) ==
    IF Len(line) >= 1 /\ line[Len(line)] = "\r" THEN SubSeq(line, 1, Len(line) - 1)
    ELSE line

\* The blank lines that follow line 1 of a CR LF text.
RECURSIVE BlankRunCRLF(_, _)
BlankRunCRLF(lines, i) ==
    IF i < Len(lines) /\ CRLFLine(lines[i + 1]) = <<>> THEN BlankRunCRLF(lines, i + 1)
    ELSE i

\* C17: a CR LF document stays a CR LF document under a fix (no line feed
\* without its carriage return appears), and the blank lines of a CR LF document
\* count as separator lines: the canonical header, newlines - 1 blank lines and
\* then content, all ended by CR LF, get no diagnostic.
C17_CrlfIsTolerated ==
    /\ (pc = "lint" /\ passes = 1 /\ IsCRLF(prev)) => IsCRLF(text)
    /\ (pc = "linted" /\ Analysed /\ N >= 1 /\ IsCRLF(text)
            /\ CRLFLine(Lines[1]) = CanonicalHeader(FileExtension(filename))
            /\ BlankRunCRLF(Lines, 1) - 1 = N - 1
            /\ BlankRunCRLF(Lines, 1) < Len(Lines)) =>
            reports = <<>>

\* C18: the expected header is the template with the current year in the comment
\* form of the dialect, and every fix writes it at the start of the text: after a
\* fix the text starts with the canonical header, which is the whole of line 1
\* when newlines >= 1.
C18_FixWritesDialectHeader ==
    (Analysed => ExpectedCopyright(FileExtension(filename))
                    = CanonicalHeader(FileExtension(filename)))
    /\ ((pc = "lint" /\ passes >= 1) =>
            /\ HasAt(text, 1, CanonicalHeader(FileExtension(filename)))
            /\ (N >= 1 => Lines[1] = CanonicalHeader(FileExtension(filename))))

\* C18 witness: a css file whose line 1 was a line-comment header, after the fix
\* that turned it into the block-comment header.
C18_Witness ==
    /\ pc = "lint"
    /\ passes = 1
    /\ FileExtension(filename) = "css"
    /\ Split(prev)[1] = <<"/", "/", " ", "C", "Y">>
    /\ Lines[1] = <<"/", "*", " ", "C", "Y", " ", "*", "/">>

\* The number of line breaks of a text; a CR LF pair is one line break.
LineBreaks(t) == Cardinality({i \in 1..Len(t) : t[i] = NL})

\* The length of the last line of a text: what follows its last line break.
RECURSIVE LastLineLength(_)
LastLineLength(t) ==
    IF t = <<>> \/ t[Len(t)] = NL THEN 0
    ELSE 1 + LastLineLength(SubSeq(t, 1, Len(t) - 1))

\* C19: for every text the stub parser returns a Program node with an empty body,
\* the range [0, text length], loc.start (1, 0), and loc.end at the end of the
\* text: line 1 + the number of line breaks, column the length of the last line.
C19_StubParserLocatesEndOfText ==
    pc = "linted" =>
        ast = [type |-> "Program",
               body |-> <<>>,
               range |-> <<0, Len(text)>>,
               loc |-> [start |-> [line |-> 1, column |-> 0],
                        end |-> [line |-> 1 + LineBreaks(text),
                                 column |-> LastLineLength(text)]]]

\* C20: the fix of a diagnostic about a header on line 1 (the case mismatch
\* included) replaces line 1 and the empty lines after it by the canonical header
\* and exactly `newlines` line breaks; what follows them is kept.  The case
\* checked is the one where content follows the header and its empty lines.
C20_FixReplacesHeaderRegion ==
    (pc = "lint" /\ passes = 1
        /\ lastFix \in {"invalidCopyrightFormat", "outdatedCopyright", "incorrectNewlines"}
        /\ NextNonBlank(Split(prev)) < Len(Split(prev))) =>
        text = CanonicalHeader(FileExtension(filename)) \o Repeat(NL, N)
                 \o Slice(prev, LineStart(Split(prev), NextNonBlank(Split(prev))), Len(prev))

\* C21: when line 1 is a case-correct header with one or more of the defects
\* format, year and blank-line count, and a non-empty line follows it, one
\* application of the reported fix repairs them all: the fixed text is the
\* canonical header, exactly `newlines` line breaks, then the original text from
\* its first non-empty line onward, and a lint run over it reports nothing.
C21_OneFixRepairsHeader ==
    (pc = "linted" /\ Analysed /\ N >= 1
        /\ IsCopyrightComment(Lines[1]) /\ ~DuplicateCase(Lines)
        /\ NextNonBlank(Lines) < Len(Lines)
        /\ DefectCount(FileExtension(filename), N, Lines) >= 1) =>
        /\ Len(reports) = 1
        /\ Fixed = CanonicalHeader(FileExtension(filename)) \o Repeat(NL, N)
                     \o Slice(text, LineStart(Lines, NextNonBlank(Lines)), Len(text))
        /\ CheckCopyright(FileExtension(filename), N, Fixed) = <<>>

\* C22: every range [start, end] of the edits of a reported fix lies within the
\* text: 0 <= start <= end <= length of the text.
C22_FixRangesWithinText ==
    (pc = "linted" /\ reports # <<>>) =>
        \A k \in 1..Len(reports[1].fix) :
            LET range == reports[1].fix[k].range
            IN  0 <= range[1] /\ range[1] <= range[2] /\ range[2] <= Len(text)

\* The non-blank lines of a sequence of lines, in order.
NonBlankLines(lines) == SelectSeq(lines, LAMBDA l : ~TrimIsEmpty(l))

\* The lines without the line of index i (0-based).
WithoutLine(lines, i) == SubSeq(lines, 1, i) \o SubSeq(lines, i + 2, Len(lines))

\* C23: the incorrectPosition fix removes the misplaced notice line and
\* whitespace only: the non-blank lines of the fixed text below the inserted
\* header are the non-blank lines of the original text other than the notice,
\* unchanged, in the same order and each on a line of its own (newlines >= 1).
C23_PositionFixKeepsContentLines ==
    (pc = "lint" /\ passes = 1 /\ lastFix = "incorrectPosition" /\ N >= 1) =>
        NonBlankLines(Tail(Lines))
            = NonBlankLines(WithoutLine(Split(prev), FirstLaterMatch(Split(prev), 0)))

====
